---- MODULE Spec2Model ----
(***************************************************************************)
(* A model of the simm backend: the session-token component                *)
(* (backend/core/security.py) and the Facebook feed proxy                  *)
(* (backend/services/facebook_service.py with its endpoints in             *)
(* backend/api/v1/endpoints/facebook.py).                                  *)
(*                                                                         *)
(* Time is counted in ticks, TicksPerSec of them to a second, so that the  *)
(* sub-second part of datetime.now() and the truncation of the exp claim   *)
(* to whole seconds are both visible.                                      *)
(***************************************************************************)
EXTENDS Integers, Sequences, FiniteSets, TLC

\* ---------------------------------------------------------------- bounds
TicksPerSec == 3
MaxTime == 7
MaxTtl == 4
MaxPages == 3
MaxPageLen == 2

\* ------------------------------------------------------- program constants
DefaultExpireMinutes == 30
HTTP_401_UNAUTHORIZED == 401
HTTP_403_FORBIDDEN == 403
HTTP_500_INTERNAL == 500
HTTP_200_OK == 200

NULL == "None"
ABSENT == "<absent>"
ALGORITHM == "HS256"
APP_SECRET_KEY == "app-secret"
CredentialsDetail == "Could not validate credentials"
ExpiredDetail == "Token has expired"

VARIABLES
  now,        \* datetime.now(timezone.utc), in ticks
  held,       \* the bearer token the client presents: {} or {token}
  origin,     \* how held was issued: {[claims, ttl, at]}, {} once it is not an issued token
  res,        \* outcome of the last get_current_user call: {} or {[out, token, at]}
  fpc,        \* feed request: "idle", "service", "returned", "done"
  endpoint,   \* "posts", "post", "comments", or "get_post_comments" (the service called directly)
  fetch_all,  \* get_post_comments' fetch_all argument
  upstream,   \* what the Graph API answers to the k-th page URL
  next_page_url, \* index of the page the loop requests next, 0 for None
  all_comments,  \* get_post_comments' accumulator
  requests,   \* the outbound requests made so far: <<[url, params]>>
  svc,        \* what the service call did: NoResult, a return or a raise
  response,   \* what the endpoint handler did: NoResult, a return or a raise
  lpc,        \* OAuth callback: "idle", "exchange", "upgrade", "profile", "done"
  query,      \* the callback's query parameters: [code, error]
  calls,      \* the outbound calls of the callback so far: <<[step, kind, access_token]>>
  user_access_token, \* the callback's local of that name
  issued,     \* the session tokens the callback has created, in order
  lresponse,  \* what the callback did: NoResult, a redirect or a raise
  model,      \* app.state.model and app.state.processor: "unset", "loaded" or "none"
  spc,        \* each predict request: "waiting", "running", "done"
  loop,       \* the request whose handler the event loop is executing, 0 for none
  comments,   \* each running request's list of comments
  sentiment_results, \* each running request's predictions so far
  generate_calls,    \* the classifier invocations so far: the request of each
  sresponse   \* what the predict handler last did: NoResult, a return or a raise

authVars == <<now, held, origin, res>>
feedVars == <<fpc, endpoint, fetch_all, upstream, next_page_url, all_comments, requests, svc, response>>
loginVars == <<lpc, query, calls, user_access_token, issued, lresponse>>
sentimentVars == <<model, spc, loop, comments, sentiment_results, generate_calls, sresponse>>
vars == <<now, held, origin, res, fpc, endpoint, fetch_all, upstream, next_page_url,
          all_comments, requests, svc, response,
          lpc, query, calls, user_access_token, issued, lresponse,
          model, spc, loop, comments, sentiment_results, generate_calls, sresponse>>

\* ====================================================== session tokens

\* The claim sets create_access_token is called with (auth.py builds them from
\* the Facebook profile: any of the profile fields may be missing).
ClaimSets ==
  { [sub |-> "fb-1", name |-> "Ann", email |-> "ann@x", picture |-> "http://p/1", fb_access_token |-> "EAAB"],
    [sub |-> "fb-2", name |-> "Bob", email |-> NULL, picture |-> NULL, fb_access_token |-> "EAAC"],
    [sub |-> NULL, name |-> NULL, email |-> NULL, picture |-> NULL, fb_access_token |-> "EAAD"] }

\* expires_delta: None (given = FALSE) or a timedelta of delta ticks.
NoTtl == [given |-> FALSE, delta |-> 0]
Ttl(d) == [given |-> TRUE, delta |-> d]
Ttls == {NoTtl} \cup {Ttl(d) : d \in (0 - MaxTtl)..MaxTtl}

\* timedelta.__bool__: a zero timedelta is falsy, as None is.
Truthy(expires_delta) == expires_delta.given /\ expires_delta.delta # 0

\* jwt.encode turns a datetime exp into whole epoch seconds (timegm of the
\* utctimetuple, which has no sub-second part).
IntDate(t) == t \div TicksPerSec

\* jwt.encode: the claims as given, exp as an int, signed with key under alg.
JwtEncode(to_encode, key, alg) ==
  [sub |-> to_encode.sub, name |-> to_encode.name, email |-> to_encode.email,
   picture |-> to_encode.picture, fb_access_token |-> to_encode.fb_access_token,
   has_exp |-> TRUE, exp |-> IntDate(to_encode.exp), key |-> key, alg |-> alg, typed |-> TRUE]

CreateAccessTokenNoDelta(data, expires_delta, t) ==
  JwtEncode([sub |-> data.sub, name |-> data.name, email |-> data.email,
             picture |-> data.picture, fb_access_token |-> data.fb_access_token,
             exp |-> t],
            APP_SECRET_KEY, ALGORITHM)

CreateAccessToken(data, expires_delta, t) ==
  LET expire == IF Truthy(expires_delta)
                  THEN t + expires_delta.delta
                  ELSE t + DefaultExpireMinutes * 60 * TicksPerSec
  IN JwtEncode([sub |-> data.sub, name |-> data.name, email |-> data.email,
                picture |-> data.picture, fb_access_token |-> data.fb_access_token,
                exp |-> expire],
               APP_SECRET_KEY, ALGORITHM)

\* jwt.decode(token, key, algorithms=[ALGORITHM]): the signature and algorithm,
\* then the registered claims: exp against the clock in whole seconds
\* (expired when exp < now), sub a string when the key is present.
JwtDecode(token, key, t) ==
  IF token.alg # ALGORITHM \/ token.key # key
    THEN [ok |-> FALSE, error |-> "JWTError"]
  ELSE IF token.has_exp /\ token.exp < IntDate(t)
    THEN [ok |-> FALSE, error |-> "ExpiredSignatureError"]
  ELSE IF token.sub = NULL
    THEN [ok |-> FALSE, error |-> "JWTClaimsError"]
  ELSE [ok |-> TRUE, payload |-> token]

\* TokenPayload(**payload): a missing key and a null both become None;
\* a value of the wrong type is a validation error.
TokenPayload(payload) ==
  [sub |-> IF payload.sub = ABSENT THEN NULL ELSE payload.sub,
   has_exp |-> payload.has_exp, exp |-> payload.exp,
   name |-> payload.name, email |-> payload.email, picture |-> payload.picture,
   fb_access_token |-> payload.fb_access_token]

Raise(status, detail, reason) ==
  [kind |-> "raise", status_code |-> status, detail |-> detail, reason |-> reason, payload |-> {}]

VerifyTokenLeakExpired(token, credentials_exception, t) ==
  LET d == JwtDecode(token, APP_SECRET_KEY, t) IN
  IF ~d.ok THEN [credentials_exception EXCEPT !.reason = d.error]
  ELSE IF ~d.payload.typed THEN [credentials_exception EXCEPT !.reason = "ValidationError"]
  ELSE LET token_data == TokenPayload(d.payload) IN
       IF token_data.has_exp /\ token_data.exp * TicksPerSec < t
         THEN Raise(HTTP_401_UNAUTHORIZED, ExpiredDetail, "TokenHasExpired")
         ELSE [kind |-> "return", status_code |-> HTTP_200_OK, detail |-> "",
               reason |-> "", payload |-> {token_data}]

VerifyTokenJoseExpiryOnly(token, credentials_exception, t) ==
  LET d == JwtDecode(token, APP_SECRET_KEY, t) IN
  IF ~d.ok THEN [credentials_exception EXCEPT !.reason = d.error]
  ELSE IF ~d.payload.typed THEN [credentials_exception EXCEPT !.reason = "ValidationError"]
  ELSE [kind |-> "return", status_code |-> HTTP_200_OK, detail |-> "",
        reason |-> "", payload |-> {TokenPayload(d.payload)}]

\* verify_token: the HTTPException it raises for an expired token is itself an
\* Exception, so the except clause below it replaces it by credentials_exception.
VerifyToken(token, credentials_exception, t) ==
  LET d == JwtDecode(token, APP_SECRET_KEY, t) IN
  IF ~d.ok THEN [credentials_exception EXCEPT !.reason = d.error]
  ELSE IF ~d.payload.typed THEN [credentials_exception EXCEPT !.reason = "ValidationError"]
  ELSE LET token_data == TokenPayload(d.payload) IN
       IF token_data.has_exp /\ token_data.exp * TicksPerSec < t
         THEN [credentials_exception EXCEPT !.reason = "TokenHasExpired"]
         ELSE [kind |-> "return", status_code |-> HTTP_200_OK, detail |-> "",
               reason |-> "", payload |-> {token_data}]

GetCurrentUser(token, t) ==
  LET credentials_exception == Raise(HTTP_401_UNAUTHORIZED, CredentialsDetail, "")
      token_payload == VerifyToken(token, credentials_exception, t)
  IN IF token_payload.kind = "raise" THEN token_payload
     ELSE IF \E p \in token_payload.payload : p.sub = NULL
       THEN [credentials_exception EXCEPT !.reason = "MissingSubject"]
     ELSE token_payload

\* ------------------------------------------------------------- actions

\* The clock advances.
Tick ==
  /\ now < MaxTime
  /\ now' = now + 1
  /\ UNCHANGED <<held, origin, res>>
  /\ UNCHANGED <<feedVars, loginVars, sentimentVars>>

\* auth.py calls create_access_token and hands the token to the client.
Issue ==
  /\ \E data \in ClaimSets, expires_delta \in Ttls :
       /\ held' = {CreateAccessToken(data, expires_delta, now)}
       /\ origin' = {[claims |-> data, ttl |-> expires_delta, at |-> now]}
  /\ res' = {}
  /\ UNCHANGED now
  /\ UNCHANGED <<feedVars, loginVars, sentimentVars>>

\* The client (or an attacker) alters the token it holds: the signature no
\* longer matches, or the header names another algorithm.
Tamper ==
  /\ origin # {}
  /\ \E token \in held, how \in {"signature", "algorithm"} :
       held' = {IF how = "signature" THEN [token EXCEPT !.key = "other-secret"]
                                     ELSE [token EXCEPT !.alg = "none"]}
  /\ origin' = {}
  /\ res' = {}
  /\ UNCHANGED now
  /\ UNCHANGED <<feedVars, loginVars, sentimentVars>>

\* A token that create_access_token did not build but that carries a valid
\* signature: one without a sub key, one without an exp key, one whose
\* payload TokenPayload rejects.
Foreign ==
  /\ origin # {}
  /\ \E token \in held, how \in {"no-sub", "no-exp", "ill-typed"} :
       held' = {CASE how = "no-sub" -> [token EXCEPT !.sub = ABSENT]
                  [] how = "no-exp" -> [token EXCEPT !.has_exp = FALSE, !.exp = 0]
                  [] OTHER -> [token EXCEPT !.typed = FALSE]}
  /\ origin' = {}
  /\ res' = {}
  /\ UNCHANGED now
  /\ UNCHANGED <<feedVars, loginVars, sentimentVars>>

\* A request arrives with the held token: get_current_user runs.
Validate ==
  /\ \E token \in held :
       res' = {[out |-> GetCurrentUser(token, now), token |-> token, at |-> now]}
  /\ UNCHANGED <<now, held, origin>>
  /\ UNCHANGED <<feedVars, loginVars, sentimentVars>>

\* ------------------------------------------------- session-token claims

\* The validations made at the very time the held token was issued.
ImmediateRoundTrips ==
  {<<r, o>> \in res \X origin : r.token \in held /\ r.at = o.at /\ o.claims.sub # NULL}

ClaimsReturned(r, o) ==
  /\ r.out.kind = "return"
  /\ \E p \in r.out.payload :
       /\ p.sub = o.claims.sub
       /\ p.name = o.claims.name
       /\ p.email = o.claims.email
       /\ p.picture = o.claims.picture
       /\ p.fb_access_token = o.claims.fb_access_token

\* C1 as stated: for every claim set with a subject and every ttl, validating
\* the issued token immediately after issuance succeeds and returns the five
\* claims unchanged.
C1_RoundTripEveryTtl ==
  \A ro \in ImmediateRoundTrips : ClaimsReturned(ro[1], ro[2])

\* C1, amended: for every claim set with a subject and every ttl of at least
\* one second (or no ttl), validating the issued token immediately after
\* issuance succeeds and returns the five claims unchanged.
C1_RoundTripWholeSecondTtl ==
  \A ro \in ImmediateRoundTrips :
    (~ro[2].ttl.given \/ ro[2].ttl.delta >= TicksPerSec) => ClaimsReturned(ro[1], ro[2])

C1_Witness ==
  \E ro \in ImmediateRoundTrips :
    /\ ro[2].ttl.given
    /\ ro[2].ttl.delta >= TicksPerSec
    /\ ro[1].at % TicksPerSec # 0
    /\ ClaimsReturned(ro[1], ro[2])

\* C2 as stated: the embedded expiry is issue time + ttl (in whole seconds) for
\* every ttl that is passed, zero included, and issue time + 30 minutes only
\* when no ttl is passed.
C2_ExpiryIsIssuePlusTtl ==
  \A o \in origin, token \in held :
    /\ token.has_exp
    /\ token.exp = IntDate(o.at + (IF o.ttl.given THEN o.ttl.delta
                                                  ELSE DefaultExpireMinutes * 60 * TicksPerSec))

\* The token passes every check of validation but the expiry checks.
OtherwiseValid(token) ==
  /\ token.alg = ALGORITHM
  /\ token.key = APP_SECRET_KEY
  /\ token.typed
  /\ token.sub \notin {NULL, ABSENT}

ExpiredReasons == {"ExpiredSignatureError", "TokenHasExpired"}

\* C3 as stated: validation fails, as expired, at every time t >= the embedded
\* expiry, t equal to the expiry included.
C3_ExpiredFromExpiryOn ==
  \A r \in res :
    (r.token.has_exp /\ r.at >= r.token.exp * TicksPerSec) =>
      /\ r.out.kind = "raise"
      /\ OtherwiseValid(r.token) => r.out.reason \in ExpiredReasons

\* C3, amended: for every token that carries an expiry, validation fails at
\* every time t strictly after the embedded expiry, as expired when the token
\* passes the other checks; at t exactly equal to the expiry a token that
\* passes the other checks is still accepted.
C3_ExpiredStrictlyAfterExpiry ==
  \A r \in res :
    r.token.has_exp =>
      /\ r.at > r.token.exp * TicksPerSec =>
            /\ r.out.kind = "raise"
            /\ r.out.status_code = HTTP_401_UNAUTHORIZED
            /\ OtherwiseValid(r.token) => r.out.reason \in ExpiredReasons
      /\ (r.at = r.token.exp * TicksPerSec /\ OtherwiseValid(r.token)) =>
            r.out.kind = "return"

C3_Witness ==
  \E r \in res :
    /\ r.token.has_exp
    /\ OtherwiseValid(r.token)
    /\ r.at > r.token.exp * TicksPerSec
    /\ r.at < (r.token.exp + 1) * TicksPerSec
    /\ r.out.kind = "raise"

\* C4: every failed validation is the 401 with the generic detail; no failure
\* carries another detail.
C4_GenericCredentialsError ==
  \A r \in res :
    r.out.kind # "return" =>
      /\ r.out.kind = "raise"
      /\ r.out.status_code = HTTP_401_UNAUTHORIZED
      /\ r.out.detail = CredentialsDetail

C4_Witness ==
  \E r \in res :
    /\ r.out.reason = "TokenHasExpired"
    /\ r.out.detail = CredentialsDetail

\* ============================================================ feed proxy

NoResult == [kind |-> "none"]

\* What the Graph API answers to one page request: a 2xx page of len records,
\* a non-2xx status with a body, or no response at all (network error, timeout).
StatusAnswers ==
  { [kind |-> "status", len |-> 0, status_code |-> 400, text |-> "Invalid OAuth access token"],
    [kind |-> "status", len |-> 0, status_code |-> 503, text |-> "Service temporarily unavailable"] }

PageAnswers ==
  {[kind |-> "ok", len |-> n, status_code |-> 200, text |-> ""] : n \in 0..MaxPageLen}
    \cup StatusAnswers
    \cup {[kind |-> "transport", len |-> 0, status_code |-> 0, text |-> ""]}

\* An upstream collection of 1..MaxPages pages; page k is served at the k-th URL
\* (the first URL, then each page's paging.next).
Upstreams == UNION {[1..n -> PageAnswers] : n \in 1..MaxPages}

\* The records of page k: comment ids, distinct across the collection.
PageRecords(up, k) == [i \in 1..up[k].len |-> <<k, i>>]

\* paging.next of page k: the URL of page k + 1, absent (0) on the last page.
PagingNext(up, k) == IF k < Len(up) THEN k + 1 ELSE 0

\* client.get(url, params) followed by response.raise_for_status().
HttpGet(up, url) ==
  CASE up[url].kind = "ok" ->
         [kind |-> "ok", data |-> PageRecords(up, url), next |-> PagingNext(up, url)]
    [] up[url].kind = "status" ->
         [kind |-> "HTTPStatusError", status_code |-> up[url].status_code, text |-> up[url].text]
    [] OTHER ->
         [kind |-> "RequestError"]

FirstRequest == [url |-> 1, params |-> TRUE]

ServiceRaise(e) ==
  IF e.kind = "HTTPStatusError"
    THEN [kind |-> "raise", exc |-> "HTTPStatusError", has_response |-> TRUE,
          status_code |-> e.status_code, text |-> e.text]
    ELSE [kind |-> "raise", exc |-> "RequestError", has_response |-> FALSE,
          status_code |-> 0, text |-> ""]

GetUserPostsRetry(up) ==
  LET r == HttpGet(up, 1) IN
  IF r.kind = "ok"
    THEN [requests |-> <<FirstRequest>>,
          out |-> [kind |-> "return", data |-> r.data, has_next_page |-> r.next # 0]]
    ELSE [requests |-> <<FirstRequest, FirstRequest>>, out |-> ServiceRaise(r)]

\* get_user_posts: one GET of /me/posts; every except clause re-raises.
GetUserPosts(up) ==
  LET r == HttpGet(up, 1) IN
  [requests |-> <<FirstRequest>>,
   out |-> IF r.kind = "ok"
             THEN [kind |-> "return", data |-> r.data, has_next_page |-> r.next # 0]
             ELSE ServiceRaise(r)]

\* get_single_post: one GET of /{post_id}; every except clause re-raises.
GetSinglePost(up) ==
  LET r == HttpGet(up, 1) IN
  [requests |-> <<FirstRequest>>,
   out |-> IF r.kind = "ok"
             THEN [kind |-> "return", data |-> r.data, has_next_page |-> FALSE]
             ELSE ServiceRaise(r)]

CommentsIterationAssign(up, fa, url, acc) ==
  LET r == HttpGet(up, url) IN
  IF r.kind = "ok"
    THEN [all_comments |-> IF r.data # <<>> THEN r.data ELSE acc,
          next_page_url |-> IF fa THEN r.next ELSE url,
          break |-> ~fa, raised |-> NoResult]
    ELSE [all_comments |-> acc, next_page_url |-> url, break |-> TRUE, raised |-> NoResult]

CommentsIterationRequestErrorEscapes(up, fa, url, acc) ==
  LET r == HttpGet(up, url) IN
  IF r.kind = "ok"
    THEN [all_comments |-> IF r.data # <<>> THEN acc \o r.data ELSE acc,
          next_page_url |-> IF fa THEN r.next ELSE url,
          break |-> ~fa, raised |-> NoResult]
    ELSE [all_comments |-> acc, next_page_url |-> url, break |-> TRUE,
          raised |-> IF r.kind = "RequestError" THEN ServiceRaise(r) ELSE NoResult]

CommentsIterationNoBreak(up, fa, url, acc) ==
  LET r == HttpGet(up, url) IN
  IF r.kind = "ok"
    THEN [all_comments |-> IF r.data # <<>> THEN acc \o r.data ELSE acc,
          next_page_url |-> r.next,
          break |-> FALSE, raised |-> NoResult]
    ELSE [all_comments |-> acc, next_page_url |-> url, break |-> TRUE, raised |-> NoResult]

\* One iteration of get_post_comments' while loop, entered with next_page_url =
\* url and all_comments = acc: the page's records are appended; the loop is left
\* by break after the first page when fetch_all is false, and on either httpx error.
CommentsIteration(up, fa, url, acc) ==
  LET r == HttpGet(up, url) IN
  IF r.kind = "ok"
    THEN [all_comments |-> IF r.data # <<>> THEN acc \o r.data ELSE acc,
          next_page_url |-> IF fa THEN r.next ELSE url,
          break |-> ~fa, raised |-> NoResult]
    ELSE [all_comments |-> acc, next_page_url |-> url, break |-> TRUE, raised |-> NoResult]

HTTPException(status, prefix, text) ==
  [kind |-> "raise", status_code |-> status, detail |-> <<prefix, text>>]

Returned(out) == [kind |-> "return", status_code |-> HTTP_200_OK, detail |-> <<"", "">>]

\* get_facebook_posts: an exception without a response falls out of the except
\* block, and the function ends without a return statement.
GetFacebookPosts(out) ==
  IF out.kind = "return" THEN Returned(out)
  ELSE IF out.has_response
    THEN HTTPException(out.status_code, "Error fetching Facebook posts: ", out.text)
  ELSE [kind |-> "return_none", status_code |-> 0, detail |-> <<"", "">>]

GetFacebookPost(out) ==
  IF out.kind = "return" THEN Returned(out)
  ELSE IF out.has_response
    THEN HTTPException(out.status_code, "Error fetching Facebook post: ", out.text)
  ELSE HTTPException(HTTP_500_INTERNAL, "An unexpected error occurred while fetching post: ", out.exc)

GetFacebookPostComments(out) ==
  IF out.kind = "return" THEN Returned(out)
  ELSE IF out.has_response
    THEN HTTPException(out.status_code, "Error fetching comments: ", out.text)
  ELSE HTTPException(HTTP_500_INTERNAL, "An unexpected error occurred while fetching comments: ", out.exc)

Handlers == {"posts", "post", "comments"}

\* ------------------------------------------------------------- actions

\* A feed endpoint is called by an authenticated user: without a Facebook token
\* in the JWT it answers 403, otherwise it builds the service and calls it.
HandlerStart ==
  /\ fpc = "idle"
  /\ \E ep \in Handlers, up \in Upstreams, has_fb_token \in BOOLEAN :
       /\ endpoint' = ep
       /\ upstream' = up
       /\ IF has_fb_token
            THEN /\ fpc' = "service"
                 /\ next_page_url' = 1
                 /\ response' = response
            ELSE /\ fpc' = "done"
                 /\ next_page_url' = 0
                 /\ response' = HTTPException(HTTP_403_FORBIDDEN, "Facebook access token not found in JWT.", "")
  /\ UNCHANGED <<fetch_all, all_comments, requests, svc>>
  /\ UNCHANGED <<authVars, loginVars, sentimentVars>>

\* get_post_comments is called directly, with either value of fetch_all.
ServiceStart ==
  /\ fpc = "idle"
  /\ \E fa \in BOOLEAN, up \in Upstreams :
       /\ fetch_all' = fa
       /\ upstream' = up
  /\ endpoint' = "get_post_comments"
  /\ fpc' = "service"
  /\ next_page_url' = 1
  /\ UNCHANGED <<all_comments, requests, svc, response>>
  /\ UNCHANGED <<authVars, loginVars, sentimentVars>>

GetUserPostsCall ==
  /\ fpc = "service"
  /\ endpoint = "posts"
  /\ LET c == GetUserPosts(upstream) IN
       /\ requests' = requests \o c.requests
       /\ svc' = c.out
  /\ fpc' = "returned"
  /\ UNCHANGED <<endpoint, fetch_all, upstream, next_page_url, all_comments, response>>
  /\ UNCHANGED <<authVars, loginVars, sentimentVars>>

GetSinglePostCall ==
  /\ fpc = "service"
  /\ endpoint = "post"
  /\ LET c == GetSinglePost(upstream) IN
       /\ requests' = requests \o c.requests
       /\ svc' = c.out
  /\ fpc' = "returned"
  /\ UNCHANGED <<endpoint, fetch_all, upstream, next_page_url, all_comments, response>>
  /\ UNCHANGED <<authVars, loginVars, sentimentVars>>

\* One pass of get_post_comments' loop (one awaited request); the pass that
\* leaves the loop also executes the return that follows it.
GetPostCommentsStep ==
  /\ fpc = "service"
  /\ endpoint \in {"comments", "get_post_comments"}
  /\ next_page_url # 0
  /\ LET it == CommentsIteration(upstream, fetch_all, next_page_url, all_comments) IN
       /\ requests' = Append(requests, [url |-> next_page_url, params |-> all_comments = <<>>])
       /\ all_comments' = it.all_comments
       /\ next_page_url' = it.next_page_url
       /\ IF it.raised.kind # "none"
            THEN svc' = it.raised /\ fpc' = "returned"
          ELSE IF it.break \/ it.next_page_url = 0
            THEN svc' = [kind |-> "return", data |-> it.all_comments, has_next_page |-> FALSE]
                 /\ fpc' = "returned"
          ELSE svc' = svc /\ fpc' = fpc
  /\ UNCHANGED <<endpoint, fetch_all, upstream, response>>
  /\ UNCHANGED <<authVars, loginVars, sentimentVars>>

\* The endpoint handler resumes with the service's result or exception.
HandlerFinish ==
  /\ fpc = "returned"
  /\ endpoint \in Handlers
  /\ response' = CASE endpoint = "posts" -> GetFacebookPosts(svc)
                   [] endpoint = "post" -> GetFacebookPost(svc)
                   [] OTHER -> GetFacebookPostComments(svc)
  /\ fpc' = "done"
  /\ UNCHANGED <<endpoint, fetch_all, upstream, next_page_url, all_comments, requests, svc>>
  /\ UNCHANGED <<authVars, loginVars, sentimentVars>>

\* ----------------------------------------------------- feed-proxy claims

AllOk(up) == \A k \in 1..Len(up) : up[k].kind = "ok"

\* The first page whose request fails, 0 when none does.
FirstFailure(up) ==
  IF AllOk(up) THEN 0
  ELSE CHOOSE k \in 1..Len(up) :
         /\ up[k].kind # "ok"
         /\ \A j \in 1..(k - 1) : up[j].kind = "ok"

RECURSIVE ConcatPages(_, _)
ConcatPages(up, k) ==
  IF k = 0 THEN <<>> ELSE ConcatPages(up, k - 1) \o PageRecords(up, k)

RequestedUrls == [i \in 1..Len(requests) |-> requests[i].url]

ServiceDone == fpc \in {"returned", "done"} /\ svc.kind # "none"

\* C5: with fetch_all and an upstream whose N pages all succeed,
\* get_post_comments requests each page once, in order, and returns the
\* concatenation of the N pages' records.
C5_FetchAllConcatenatesPages ==
  (endpoint = "get_post_comments" /\ fetch_all /\ ServiceDone /\ AllOk(upstream)) =>
    /\ svc.kind = "return"
    /\ svc.data = ConcatPages(upstream, Len(upstream))
    /\ RequestedUrls = [i \in 1..Len(upstream) |-> i]

C5_Witness ==
  /\ endpoint = "get_post_comments"
  /\ fetch_all
  /\ ServiceDone
  /\ AllOk(upstream)
  /\ Len(upstream) >= 3
  /\ \E k \in 1..Len(upstream) : upstream[k].len = 0
  /\ Len(svc.data) >= 3

\* C6: with fetch_all, when the k-th page request fails (status or transport
\* error), get_post_comments returns the records of pages 1..k-1, has made
\* exactly k requests and never makes another, and raises nothing.
C6_FetchAllStopsAtFailure ==
  (endpoint = "get_post_comments" /\ fetch_all /\ ~AllOk(upstream)) =>
    /\ Len(requests) <= FirstFailure(upstream)
    /\ ServiceDone =>
         /\ svc.kind = "return"
         /\ svc.data = ConcatPages(upstream, FirstFailure(upstream) - 1)
         /\ RequestedUrls = [i \in 1..FirstFailure(upstream) |-> i]

C6_Witness ==
  /\ endpoint = "get_post_comments"
  /\ fetch_all
  /\ ServiceDone
  /\ FirstFailure(upstream) = 2
  /\ upstream[2].kind = "transport"
  /\ svc.kind = "return"
  /\ svc.data = PageRecords(upstream, 1)
  /\ svc.data # <<>>

\* C7: without fetch_all (as the comments endpoint always calls it),
\* get_post_comments makes exactly one request, whatever its outcome, and
\* returns that page's records only.
C7_SinglePageOneRequest ==
  /\ endpoint = "comments" => ~fetch_all
  /\ (endpoint \in {"comments", "get_post_comments"} /\ ~fetch_all) =>
       /\ Len(requests) <= 1
       /\ ServiceDone =>
            /\ RequestedUrls = <<1>>
            /\ svc.kind = "return"
            /\ svc.data = IF upstream[1].kind = "ok" THEN PageRecords(upstream, 1) ELSE <<>>

C7_Witness ==
  /\ endpoint = "comments"
  /\ fpc = "done"
  /\ Len(upstream) > 1
  /\ upstream[1].kind = "ok"
  /\ upstream[1].len > 0
  /\ Len(requests) = 1
  /\ svc.data = PageRecords(upstream, 1)

\* C8: get_user_posts and get_single_post make exactly one request per call,
\* whatever its outcome, and re-raise a failure to the caller.
C8_OneRequestNoRetry ==
  endpoint \in {"posts", "post"} =>
    /\ Len(requests) <= 1
    /\ ServiceDone =>
         /\ RequestedUrls = <<1>>
         /\ upstream[1].kind = "ok" => svc.kind = "return"
         /\ upstream[1].kind = "status" =>
              /\ svc.kind = "raise"
              /\ svc.exc = "HTTPStatusError"
              /\ svc.status_code = upstream[1].status_code
         /\ upstream[1].kind = "transport" =>
              /\ svc.kind = "raise"
              /\ svc.exc = "RequestError"

C8_Witness ==
  /\ endpoint = "posts"
  /\ ServiceDone
  /\ upstream[1].kind = "transport"
  /\ svc.kind = "raise"
  /\ Len(requests) = 1

\* C9 as stated: on every feed endpoint, a non-2xx answer of the provider makes
\* the request fail with the provider's status code and body text.
C9_UpstreamStatusSurfaced ==
  (fpc = "done" /\ endpoint \in Handlers /\ requests # <<>>
     /\ upstream[requests[Len(requests)].url].kind = "status") =>
    /\ response.kind = "raise"
    /\ response.status_code = upstream[requests[Len(requests)].url].status_code
    /\ response.detail[2] = upstream[requests[Len(requests)].url].text

\* C10 as stated: on the list-posts and single-post endpoints a transport
\* failure of the outbound call is raised by the handler as an HTTP 500; the
\* handler never ends without a returned page or a raised error.
C10_TransportErrorIs500 ==
  (fpc = "done" /\ endpoint \in {"posts", "post"}) =>
    /\ response.kind \in {"return", "raise"}
    /\ (requests # <<>> /\ upstream[1].kind = "transport") =>
         /\ response.kind = "raise"
         /\ response.status_code = HTTP_500_INTERNAL

\* C17 as stated: with fetch_all, the query parameters go with the first
\* request only; every later request is the bare paging.next URL, also when the
\* first page has no records but a next link.
C17_ParamsOnFirstRequestOnly ==
  (endpoint = "get_post_comments" /\ fetch_all) =>
    \A i \in 1..Len(requests) : requests[i].params <=> (i = 1)

\* ========================================================= OAuth callback

SessionDays == 7
HTTP_400_BAD_REQUEST == 400
HTTP_307_REDIRECT == 307

\* code and error as FastAPI hands them over: None when the parameter is absent.
Codes == {NULL, "", "AQD-code"}
Errors == {NULL, "access_denied"}

\* What the Graph API answers to a POST of /oauth/access_token: a 2xx JSON body
\* with or without an access_token key, a non-2xx status, or no response.
TokenAnswers(tokens) ==
  {[kind |-> "ok", access_token |-> t] : t \in tokens}
    \cup {[kind |-> "ok", access_token |-> ABSENT]}
    \cup {[kind |-> k, access_token |-> ABSENT] : k \in {"status", "transport"}}

ShortLived == {"short-1", "short-2"}
LongLived == {"long-1", "long-2"}

\* What the Graph API answers to GET /me: a profile (any field may be missing),
\* a non-2xx status, or no response.
Profiles ==
  { [id |-> "fb-1", name |-> "Ann", email |-> "ann@x", picture_url |-> "http://p/1"],
    [id |-> "fb-2", name |-> "Bob", email |-> NULL, picture_url |-> NULL],
    [id |-> NULL, name |-> NULL, email |-> NULL, picture_url |-> NULL] }

NoProfile == [id |-> NULL, name |-> NULL, email |-> NULL, picture_url |-> NULL]

ProfileAnswers ==
  {[kind |-> "ok", profile |-> p] : p \in Profiles}
    \cup {[kind |-> k, profile |-> NoProfile] : k \in {"status", "transport"}}

LoginRaise(status, detail) ==
  [kind |-> "raise", status_code |-> status, detail |-> detail, token |-> {}]

\* The checks before the first outbound call: `if error`, `if not code`.
CallbackCheck(code, error) ==
  IF error # NULL /\ error # ""
    THEN LoginRaise(HTTP_400_BAD_REQUEST, "Facebook login failed")
  ELSE IF code = NULL \/ code = ""
    THEN LoginRaise(HTTP_400_BAD_REQUEST, "Missing authorization code from Facebook.")
  ELSE NoResult

CodeExchangeUnchecked(answer) ==
  IF answer.kind # "ok"
    THEN [raised |-> LoginRaise(HTTP_500_INTERNAL, "Could not exchange code for token"),
          user_access_token |-> ABSENT]
  ELSE [raised |-> NoResult, user_access_token |-> answer.access_token]

\* The code exchange: any exception of the POST is a 500, and so is a body
\* without an access_token.
CodeExchange(answer) ==
  IF answer.kind # "ok"
    THEN [raised |-> LoginRaise(HTTP_500_INTERNAL, "Could not exchange code for token"),
          user_access_token |-> ABSENT]
  ELSE IF answer.access_token = ABSENT
    THEN [raised |-> LoginRaise(HTTP_500_INTERNAL, "Failed to retrieve access token from Facebook."),
          user_access_token |-> ABSENT]
  ELSE [raised |-> NoResult, user_access_token |-> answer.access_token]

LongLivedUpgradeFatal(answer, current) ==
  IF answer.kind # "ok"
    THEN [raised |-> LoginRaise(HTTP_500_INTERNAL, "Could not exchange for long-lived token"),
          user_access_token |-> current]
  ELSE [raised |-> NoResult,
        user_access_token |-> IF answer.access_token = ABSENT THEN current
                                                               ELSE answer.access_token]

\* The long-lived upgrade: long_lived_token_data.get("access_token",
\* user_access_token), and any exception is printed and dropped.
LongLivedUpgrade(answer, current) ==
  IF answer.kind # "ok"
    THEN [raised |-> NoResult, user_access_token |-> current]
  ELSE [raised |-> NoResult,
        user_access_token |-> IF answer.access_token = ABSENT THEN current
                                                               ELSE answer.access_token]

\* app_jwt_data as built from user_data and the credential.
AppJwtData(user_data, token) ==
  [sub |-> user_data.id, name |-> user_data.name, email |-> user_data.email,
   picture |-> user_data.picture_url, fb_access_token |-> token]

\* The profile fetch, then create_access_token(expires_delta=timedelta(days=7))
\* and the redirect to the frontend that carries the token.
ProfileAndIssue(answer, token, t) ==
  IF answer.kind # "ok"
    THEN LoginRaise(HTTP_500_INTERNAL, "Could not fetch user info from Facebook")
  ELSE [kind |-> "redirect", status_code |-> HTTP_307_REDIRECT, detail |-> "",
        token |-> {CreateAccessToken(AppJwtData(answer.profile, token),
                                     Ttl(SessionDays * 24 * 60 * 60 * TicksPerSec), t)}]

\* ------------------------------------------------------------- actions

\* Facebook redirects the browser back to /facebook/callback.
CallbackStart ==
  /\ lpc = "idle"
  /\ \E code \in Codes, error \in Errors :
       /\ query' = [code |-> code, error |-> error]
       /\ LET r == CallbackCheck(code, error) IN
            IF r.kind = "raise"
              THEN lresponse' = r /\ lpc' = "done"
              ELSE lresponse' = lresponse /\ lpc' = "exchange"
  /\ UNCHANGED <<calls, user_access_token, issued>>
  /\ UNCHANGED <<authVars, feedVars, sentimentVars>>

ExchangeCode ==
  /\ lpc = "exchange"
  /\ \E answer \in TokenAnswers(ShortLived) :
       /\ calls' = Append(calls, [step |-> "exchange", kind |-> answer.kind,
                                  access_token |-> answer.access_token])
       /\ LET r == CodeExchange(answer) IN
            /\ user_access_token' = r.user_access_token
            /\ IF r.raised.kind = "raise"
                 THEN lresponse' = r.raised /\ lpc' = "done"
                 ELSE lresponse' = lresponse /\ lpc' = "upgrade"
  /\ UNCHANGED <<query, issued>>
  /\ UNCHANGED <<authVars, feedVars, sentimentVars>>

UpgradeToken ==
  /\ lpc = "upgrade"
  /\ \E answer \in TokenAnswers(LongLived) :
       /\ calls' = Append(calls, [step |-> "upgrade", kind |-> answer.kind,
                                  access_token |-> answer.access_token])
       /\ LET r == LongLivedUpgrade(answer, user_access_token) IN
            /\ user_access_token' = r.user_access_token
            /\ IF r.raised.kind = "raise"
                 THEN lresponse' = r.raised /\ lpc' = "done"
                 ELSE lresponse' = lresponse /\ lpc' = "profile"
  /\ UNCHANGED <<query, issued>>
  /\ UNCHANGED <<authVars, feedVars, sentimentVars>>

FetchProfileAndIssue ==
  /\ lpc = "profile"
  /\ \E answer \in ProfileAnswers :
       /\ calls' = Append(calls, [step |-> "profile", kind |-> answer.kind,
                                  access_token |-> ABSENT])
       /\ LET r == ProfileAndIssue(answer, user_access_token, now) IN
            /\ lresponse' = r
            /\ issued' = IF r.kind = "redirect"
                           THEN issued \o [i \in 1..1 |-> CHOOSE tk \in r.token : TRUE]
                           ELSE issued
  /\ lpc' = "done"
  /\ UNCHANGED <<query, user_access_token>>
  /\ UNCHANGED <<authVars, feedVars, sentimentVars>>

\* -------------------------------------------------- OAuth callback claims

CallSteps == [i \in 1..Len(calls) |-> calls[i].step]

IsPrefix(a, b) == Len(a) <= Len(b) /\ \A i \in 1..Len(a) : a[i] = b[i]

\* The answer carried a credential.
GaveToken(call) == call.kind = "ok" /\ call.access_token # ABSENT

\* C11: once the code exchange has given a short-lived credential, a failed
\* long-lived upgrade (transport error, non-2xx status, body without
\* access_token) does not end the login: the profile fetch follows and the
\* session token embeds the short-lived credential; after a successful upgrade
\* it embeds the long-lived one.
C11_UpgradeFailureFallsBack ==
  Len(calls) >= 2 =>
    LET expected == IF GaveToken(calls[2]) THEN calls[2].access_token
                                           ELSE calls[1].access_token
    IN /\ GaveToken(calls[1])
       /\ user_access_token = expected
       /\ lpc = "done" =>
            /\ Len(calls) = 3
            /\ calls[3].kind = "ok" =>
                 /\ lresponse.kind = "redirect"
                 /\ \A tk \in lresponse.token : tk.fb_access_token = expected

C11_Witness ==
  /\ lpc = "done"
  /\ Len(calls) = 3
  /\ calls[2].kind = "transport"
  /\ lresponse.kind = "redirect"
  /\ \E tk \in lresponse.token : tk.fb_access_token = calls[1].access_token

\* C12: the calls are made in the order code exchange, upgrade, profile fetch;
\* a session token is issued at most once per run, and only after the exchange
\* and the profile fetch have succeeded; an error parameter or a missing code
\* ends the run with 400 before any call; a failed exchange or profile fetch
\* ends it with 500, no token and no later call.
C12_CallbackStepOrder ==
  /\ IsPrefix(CallSteps, <<"exchange", "upgrade", "profile">>)
  /\ Len(issued) <= 1
  /\ issued # <<>> =>
       /\ lpc = "done"
       /\ Len(calls) = 3
       /\ GaveToken(calls[1])
       /\ calls[3].kind = "ok"
       /\ lresponse.kind = "redirect"
       /\ lresponse.token = {issued[1]}
  /\ lpc = "done" =>
       /\ (query.error # NULL \/ query.code \in {NULL, ""}) =>
            /\ calls = <<>>
            /\ lresponse.kind = "raise"
            /\ lresponse.status_code = HTTP_400_BAD_REQUEST
            /\ issued = <<>>
       /\ (Len(calls) >= 1 /\ ~GaveToken(calls[1])) =>
            /\ Len(calls) = 1
            /\ lresponse.kind = "raise"
            /\ lresponse.status_code = HTTP_500_INTERNAL
            /\ issued = <<>>
       /\ (Len(calls) = 3 /\ calls[3].kind # "ok") =>
            /\ lresponse.kind = "raise"
            /\ lresponse.status_code = HTTP_500_INTERNAL
            /\ issued = <<>>
       /\ (Len(calls) = 3 /\ calls[3].kind = "ok") => Len(issued) = 1

C12_Witness ==
  /\ lpc = "done"
  /\ CallSteps = <<"exchange", "upgrade", "profile">>
  /\ lresponse.kind = "redirect"
  /\ Len(issued) = 1

\* ======================================================= sentiment tally

\* ----------------------------------------------- Python float arithmetic
\* A float is a dyadic number n * 2^x: n a sequence of bits, most significant
\* first, without leading zeros (<<>> for 0), x the weight of the last bit.
\* Python's float is the IEEE 754 double: MantissaBits significant bits,
\* results rounded to nearest, ties to even.

MantissaBits == 53
DivFracBits == 64

Zeros(k) == [i \in 1..k |-> 0]

StripZeros(b) ==
  LET ones == {i \in 1..Len(b) : b[i] = 1}
  IN IF ones = {} THEN <<>>
     ELSE SubSeq(b, CHOOSE i \in ones : \A j \in ones : i <= j, Len(b))

RECURSIVE NatBits(_)
NatBits(n) == IF n = 0 THEN <<>> ELSE Append(NatBits(n \div 2), n % 2)

ShiftLeft(b, k) == IF b = <<>> THEN <<>> ELSE b \o Zeros(k)

\* a[lo..hi] + b[lo..hi] + c for two bit sequences: the carry out, then the
\* bits of the sum. The lower half is added first and carries into the upper.
RECURSIVE AddRange(_, _, _, _, _)
AddRange(a, b, lo, hi, c) ==
  IF lo = hi THEN <<(a[lo] + b[lo] + c) \div 2, (a[lo] + b[lo] + c) % 2>>
  ELSE LET mid == (lo + hi) \div 2
           low == AddRange(a, b, mid + 1, hi, c)
           halves == <<low, AddRange(a, b, lo, mid, low[1])>>
       IN halves[2] \o Tail(halves[1])

BigAdd(a, b) ==
  LET n == IF Len(a) > Len(b) THEN Len(a) ELSE Len(b)
  IN IF n = 0 THEN <<>>
     ELSE StripZeros(AddRange(Zeros(n - Len(a)) \o a, Zeros(n - Len(b)) \o b, 1, n, 0))

\* a[lo..hi] * k + c for a small natural k: the carry out, then the bits.
RECURSIVE MulRange(_, _, _, _, _)
MulRange(a, k, lo, hi, c) ==
  IF lo = hi THEN <<(a[lo] * k + c) \div 2, (a[lo] * k + c) % 2>>
  ELSE LET mid == (lo + hi) \div 2
           low == MulRange(a, k, mid + 1, hi, c)
           halves == <<low, MulRange(a, k, lo, mid, low[1])>>
       IN halves[2] \o Tail(halves[1])

BigMul(a, k) ==
  IF a = <<>> THEN <<>>
  ELSE LET m == MulRange(a, k, 1, Len(a), 0)
       IN StripZeros(NatBits(m[1]) \o Tail(m))

BigLess(a, b) ==
  IF Len(a) # Len(b) THEN Len(a) < Len(b)
  ELSE \E i \in 1..Len(a) : a[i] < b[i] /\ \A j \in 1..(i - 1) : a[j] = b[j]

FloatZero == [n |-> <<>>, x |-> 0]

\* Rounding of n * 2^x (plus something below the last bit when sticky) to
\* MantissaBits significant bits: to nearest, ties to even.
RoundToDouble(d, sticky) ==
  LET n == StripZeros(d.n)
      L == Len(n)
  IN IF L <= MantissaBits THEN [n |-> n, x |-> d.x]
     ELSE LET keep == SubSeq(n, 1, MantissaBits)
              guard == n[MantissaBits + 1]
              rest == sticky \/ \E i \in (MantissaBits + 2)..L : n[i] = 1
              up == guard = 1 /\ (rest \/ keep[MantissaBits] = 1)
          IN [n |-> IF up THEN BigAdd(keep, <<1>>) ELSE keep,
              x |-> d.x + (L - MantissaBits)]

\* Long division of r by t, for r < t, over k >= 1 fraction bits: the
\* remainder left, then the bits.
RECURSIVE DivRange(_, _, _)
DivRange(r, t, k) ==
  IF k = 1 THEN (IF 2 * r >= t THEN <<2 * r - t, 1>> ELSE <<2 * r, 0>>)
  ELSE LET first == DivRange(r, t, k \div 2)
           halves == <<first, DivRange(first[1], t, k - (k \div 2))>>
       IN <<halves[2][1]>> \o Tail(halves[1]) \o Tail(halves[2])

\* c / t of two ints (true division): the correctly rounded quotient.
FloatDiv(c, t) ==
  IF c = 0 THEN FloatZero
  ELSE LET q == DivRange(c % t, t, DivFracBits)
       IN RoundToDouble([n |-> NatBits(c \div t) \o Tail(q), x |-> 0 - DivFracBits],
                        q[1] # 0)

\* f * k for an int k that is itself a float: the correctly rounded product.
FloatMul(f, k) ==
  IF f.n = <<>> THEN FloatZero
  ELSE RoundToDouble([n |-> BigMul(f.n, k), x |-> f.x], FALSE)

\* ------------------------------------------------------ predict handler

NumReqs == 2
MaxSegs == 3

HTTP_503_UNAVAILABLE == 503

ModelNotLoadedDetail == "Model is not loaded. Please wait or check server status."
NoValidCommentsDetail == "No valid comments provided for analysis."

\* Predict requests, numbered in the order their handlers are entered.
Reqs == 1..NumReqs

\* The pieces payload.comments.split('<==>') yields: split never yields an
\* empty list, so a payload is a non-empty sequence of segments.
Segments == {"", "  ", " nice "}
Payloads == UNION {[1..k -> Segments] : k \in 1..MaxSegs}

Strip(line) ==
  CASE line = "  " -> ""
    [] line = " nice " -> "nice"
    [] OTHER -> line

SplitComments(payload) ==
  LET kept == SelectSeq(payload, LAMBDA line : Strip(line) # "")
  IN [i \in 1..Len(kept) |-> Strip(kept[i])]

\* What processor.decode returns for one item, and response.strip().lower().
RawOutputs == {"positive", "Negative", " neutral ", "mixed"}

StripLower(raw) ==
  CASE raw = "Negative" -> "negative"
    [] raw = " neutral " -> "neutral"
    [] OTHER -> raw

Labels == {"positive", "negative", "neutral"}

PredictRaise(status, detail) ==
  [kind |-> "raise", status_code |-> status, detail |-> detail]

\* req.app.state.model and the test on it. Before lifespan has stored the
\* handle the attribute does not exist and reading it raises AttributeError,
\* which the server answers with 500.
ModelCheck(handle) ==
  IF handle = "unset" THEN PredictRaise(HTTP_500_INTERNAL, "AttributeError: 'State' object has no attribute 'model'")
  ELSE IF handle = "none" THEN PredictRaise(HTTP_503_UNAVAILABLE, ModelNotLoadedDetail)
  ELSE NoResult

CommentsCheckSkipped(cs) == NoResult

CommentsCheck(cs) ==
  IF cs = <<>> THEN PredictRaise(HTTP_400_BAD_REQUEST, NoValidCommentsDetail)
  ELSE NoResult

\* Counter(sentiment_results).get(label, 0)
SentimentCount(results, label) ==
  Cardinality({i \in 1..Len(results) : results[i] = label})

PercentageOfRecognized(results, label) ==
  LET recognized == Cardinality({i \in 1..Len(results) : results[i] \in Labels})
  IN IF recognized = 0 THEN FloatZero
     ELSE FloatMul(FloatDiv(SentimentCount(results, label), recognized), 100)

Percentage(results, label) ==
  FloatMul(FloatDiv(SentimentCount(results, label), Len(results)), 100)

\* What analyze_sentiment returns once run_batch_prediction has returned.
AnalyzeSentimentReturn(cs, results) ==
  IF Len(results) = 0
  THEN [kind |-> "return", status_code |-> HTTP_200_OK, shape |-> "counts",
        predictions |-> results,
        positive |-> FloatZero, negative |-> FloatZero, neutral |-> FloatZero]
  ELSE [kind |-> "return", status_code |-> HTTP_200_OK, shape |-> "SentimentResponse",
        predictions |-> results,
        positive |-> Percentage(results, "positive"),
        negative |-> Percentage(results, "negative"),
        neutral |-> Percentage(results, "neutral")]

\* The handler the event loop is executing after the handler of r has
\* classified an item: run_batch_prediction is a plain function and the
\* handler awaits nothing, so the loop stays with r until r returns.
LoopAfterItemYields(r, returned) == 0

LoopAfterItem(r, returned) == IF returned THEN 0 ELSE r

\* A finished predict request: the handle it read, whether it got to the
\* split, its comments, and the raise or return that ended it.
Finished(r, handle, split, cs, outcome) ==
  [rid |-> r, handle |-> handle, split |-> split, comments |-> cs, outcome |-> outcome]

\* lifespan, up to its yield: the handle is stored once the load has returned.
Startup ==
  /\ model = "unset"
  /\ loop = 0
  /\ model' = "loaded"
  /\ UNCHANGED <<spc, loop, comments, sentiment_results, generate_calls, sresponse>>
  /\ UNCHANGED <<authVars, feedVars, loginVars>>

\* lifespan, after its yield.
Shutdown ==
  /\ model = "loaded"
  /\ loop = 0
  /\ model' = "none"
  /\ UNCHANGED <<spc, loop, comments, sentiment_results, generate_calls, sresponse>>
  /\ UNCHANGED <<authVars, feedVars, loginVars>>

\* analyze_sentiment from its entry to the call of run_batch_prediction.
AnalyzeSentiment ==
  \E r \in Reqs, payload \in Payloads :
    /\ loop = 0
    /\ spc[r] = "waiting"
    /\ \A q \in 1..(r - 1) : spc[q] # "waiting"
    /\ LET cs == SplitComments(payload) IN
       IF ModelCheck(model).kind = "raise"
       THEN /\ sresponse' = Finished(r, model, FALSE, <<>>, ModelCheck(model))
            /\ spc' = [spc EXCEPT ![r] = "done"]
            /\ UNCHANGED <<loop, comments, sentiment_results>>
       ELSE IF CommentsCheck(cs).kind = "raise"
       THEN /\ sresponse' = Finished(r, model, TRUE, cs, CommentsCheck(cs))
            /\ spc' = [spc EXCEPT ![r] = "done"]
            /\ UNCHANGED <<loop, comments, sentiment_results>>
       ELSE IF cs = <<>>
       THEN /\ sresponse' = Finished(r, model, TRUE, cs, AnalyzeSentimentReturn(cs, <<>>))
            /\ spc' = [spc EXCEPT ![r] = "done"]
            /\ UNCHANGED <<loop, comments, sentiment_results>>
       ELSE /\ sresponse' = NoResult
            /\ spc' = [spc EXCEPT ![r] = "running"]
            /\ loop' = r
            /\ comments' = [comments EXCEPT ![r] = cs]
            /\ sentiment_results' = [sentiment_results EXCEPT ![r] = <<>>]
    /\ UNCHANGED <<model, generate_calls>>
    /\ UNCHANGED <<authVars, feedVars, loginVars>>

\* One iteration of run_batch_prediction's loop and, after the last one, the
\* rest of analyze_sentiment.
RunBatchPredictionItem ==
  \E r \in Reqs, raw \in RawOutputs :
    /\ spc[r] = "running"
    /\ loop \in {0, r}
    /\ LET results == Append(sentiment_results[r], StripLower(raw))
           returned == Len(results) = Len(comments[r])
       IN /\ generate_calls' = Append(generate_calls, r)
          /\ loop' = LoopAfterItem(r, returned)
          /\ IF returned
             THEN /\ sresponse' = Finished(r, model, TRUE, comments[r],
                                           AnalyzeSentimentReturn(comments[r], results))
                  /\ spc' = [spc EXCEPT ![r] = "done"]
                  /\ comments' = [comments EXCEPT ![r] = <<>>]
                  /\ sentiment_results' = [sentiment_results EXCEPT ![r] = <<>>]
             ELSE /\ sentiment_results' = [sentiment_results EXCEPT ![r] = results]
                  /\ UNCHANGED <<sresponse, spc, comments>>
    /\ UNCHANGED model
    /\ UNCHANGED <<authVars, feedVars, loginVars>>

SentimentIdle ==
  /\ model = "unset"
  /\ spc = [r \in Reqs |-> "waiting"]
  /\ loop = 0
  /\ comments = [r \in Reqs |-> <<>>]
  /\ sentiment_results = [r \in Reqs |-> <<>>]
  /\ generate_calls = <<>>
  /\ sresponse = NoResult

\* ------------------------------------------------ predict handler claims

\* The predict request that last finished, if it read the handle as h.
FinishedWith(h) == sresponse # NoResult /\ sresponse.handle = h

Invoked(r) == \E i \in 1..Len(generate_calls) : generate_calls[i] = r

\* C13 as stated: in every lifecycle state other than loaded (before the load
\* has stored the handle, after shutdown has cleared it) a predict request is
\* rejected with the fixed 503 "model not loaded" error, never invokes the
\* classifier and never fails in another way.
C13_NotReadyIs503 ==
  (sresponse # NoResult /\ sresponse.handle # "loaded") =>
    /\ sresponse.outcome = PredictRaise(HTTP_503_UNAVAILABLE, ModelNotLoadedDetail)
    /\ ~Invoked(sresponse.rid)

\* The lifecycle states C13 is about are both served: after shutdown the
\* request gets the 503; before startup it does not.
C13_AfterShutdown503 ==
  FinishedWith("none") =>
    /\ sresponse.outcome = PredictRaise(HTTP_503_UNAVAILABLE, ModelNotLoadedDetail)
    /\ ~Invoked(sresponse.rid)

\* Comparisons of a float f = n * 2^x, x <= 0, with the rational num / den,
\* in whole numbers: both sides multiplied by den * 2^(-x).
EqualsRatio(f, num, den) ==
  BigMul(f.n, den) = ShiftLeft(NatBits(num), 0 - f.x)

LeqRatio(f, num, den) ==
  ~BigLess(ShiftLeft(NatBits(num), 0 - f.x), BigMul(f.n, den))

\* |f - num / den| < 2^(-tol), both sides multiplied by den * 2^(-x), and by
\* 2^(tol + x) more where that is not a whole number yet.
CloseTo(f, num, den, tol) ==
  LET s == 0 - f.x
      e == IF s >= tol THEN 0 ELSE tol - s
      l == ShiftLeft(BigMul(f.n, den), e)
      r == ShiftLeft(NatBits(num), s + e)
      d == ShiftLeft(NatBits(den), s + e - tol)
  IN BigLess(l, BigAdd(r, d)) /\ BigLess(r, BigAdd(l, d))

\* The exact sum of three floats.
Sum3(a, b, c) ==
  LET m == IF a.x <= b.x /\ a.x <= c.x THEN a.x ELSE IF b.x <= c.x THEN b.x ELSE c.x
  IN [n |-> BigAdd(BigAdd(ShiftLeft(a.n, a.x - m), ShiftLeft(b.n, b.x - m)),
                   ShiftLeft(c.n, c.x - m)),
      x |-> m]

\* A predict request that classified its batch and returned.
Tallied ==
  /\ sresponse # NoResult
  /\ sresponse.comments # <<>>
  /\ sresponse.outcome.kind = "return"

Recognized(results) == Cardinality({i \in 1..Len(results) : results[i] \in Labels})

PercentageSum(out) == Sum3(out.positive, out.negative, out.neutral)

\* C14 as stated: for every non-empty batch each returned percentage equals
\* 100 * (predictions equal to that label) / (items classified), unrecognized
\* outputs counted in the denominator; the three sum to at most 100 and to
\* exactly 100 iff every prediction is a recognized label.
C14_PercentagesExact ==
  Tallied =>
    LET out == sresponse.outcome
        total == Len(out.predictions)
    IN /\ EqualsRatio(out.positive, 100 * SentimentCount(out.predictions, "positive"), total)
       /\ EqualsRatio(out.negative, 100 * SentimentCount(out.predictions, "negative"), total)
       /\ EqualsRatio(out.neutral, 100 * SentimentCount(out.predictions, "neutral"), total)
       /\ LeqRatio(PercentageSum(out), 100, 1)
       /\ EqualsRatio(PercentageSum(out), 100, 1) <=> (Recognized(out.predictions) = total)

\* C14 amended: every batch that was classified returns, whatever the
\* classifier put out; each returned percentage is the float (count / total)
\* * 100, less than 2^-40 away from 100 * count / total, total counting the
\* unrecognized outputs too; the three sum to within 2^-40 of
\* 100 * (recognized predictions) / total, so to within 2^-40 of 100 iff every
\* prediction is a recognized label.
C14_PercentagesRounded ==
  /\ (sresponse # NoResult /\ sresponse.comments # <<>>) =>
       /\ sresponse.outcome.kind = "return"
       /\ Len(sresponse.outcome.predictions) = Len(sresponse.comments)
  /\ Tallied =>
       LET out == sresponse.outcome
           total == Len(out.predictions)
           sum == PercentageSum(out)
       IN /\ CloseTo(out.positive, 100 * SentimentCount(out.predictions, "positive"), total, 40)
          /\ CloseTo(out.negative, 100 * SentimentCount(out.predictions, "negative"), total, 40)
          /\ CloseTo(out.neutral, 100 * SentimentCount(out.predictions, "neutral"), total, 40)
          /\ CloseTo(sum, 100 * Recognized(out.predictions), total, 40)
          /\ CloseTo(sum, 100, 1, 40) <=> (Recognized(out.predictions) = total)

\* One prediction of each label: 100 / 3 three times.
C14_Witness ==
  /\ Tallied
  /\ Len(sresponse.outcome.predictions) = 3
  /\ \A l \in Labels : SentimentCount(sresponse.outcome.predictions, l) = 1

\* An unrecognized output among recognized ones.
C14_WitnessUnrecognized ==
  /\ Tallied
  /\ Recognized(sresponse.outcome.predictions) \in 1..(Len(sresponse.outcome.predictions) - 1)

\* C15 as stated: when no comment is left after splitting and dropping the
\* empty segments, the handler returns all-zero percentages instead of failing.
C15_EmptyBatchAllZero ==
  (sresponse # NoResult /\ sresponse.split /\ sresponse.comments = <<>>) =>
    /\ sresponse.outcome.kind = "return"
    /\ sresponse.outcome.positive = FloatZero
    /\ sresponse.outcome.negative = FloatZero
    /\ sresponse.outcome.neutral = FloatZero

\* C15 amended: when no comment is left after splitting and dropping the empty
\* segments, the request is rejected with 400 "No valid comments provided for
\* analysis." before any classification; the all-zero branch of the
\* aggregation is never taken by a request.
C15_EmptyBatchIs400 ==
  /\ (sresponse # NoResult /\ sresponse.split /\ sresponse.comments = <<>>) =>
       /\ sresponse.outcome = PredictRaise(HTTP_400_BAD_REQUEST, NoValidCommentsDetail)
       /\ ~Invoked(sresponse.rid)
  /\ (sresponse # NoResult /\ sresponse.outcome.kind = "return") =>
       /\ sresponse.outcome.shape = "SentimentResponse"
       /\ sresponse.comments # <<>>

C15_Witness ==
  /\ sresponse # NoResult
  /\ sresponse.handle = "loaded"
  /\ sresponse.split
  /\ sresponse.comments = <<>>
  /\ sresponse.outcome.kind = "raise"

\* C16: under any interleaving of concurrent requests two classification runs
\* never overlap: at most one request is inside run_batch_prediction, and the
\* classifier invocations of one request are consecutive, none of another
\* request between them.
C16_RunsNeverOverlap ==
  /\ Cardinality({r \in Reqs : spc[r] = "running"}) <= 1
  /\ \A r \in Reqs : spc[r] = "running" => loop = r
  /\ \A i, j, k \in 1..Len(generate_calls) :
       (i < j /\ j < k /\ generate_calls[i] = generate_calls[k]) =>
         generate_calls[j] = generate_calls[i]

C16_Witness ==
  /\ \A r \in Reqs : spc[r] = "done"
  /\ \E i, j, k \in 1..Len(generate_calls) :
       /\ i < j /\ j < k
       /\ generate_calls[i] = generate_calls[j]
       /\ generate_calls[k] # generate_calls[i]

LoginIdle ==
  /\ lpc = "idle"
  /\ query = [code |-> NULL, error |-> NULL]
  /\ calls = <<>>
  /\ user_access_token = ABSENT
  /\ issued = <<>>
  /\ lresponse = NoResult

FeedIdle ==
  /\ fpc = "idle"
  /\ endpoint = ""
  /\ fetch_all = FALSE
  /\ upstream = <<>>
  /\ next_page_url = 0
  /\ all_comments = <<>>
  /\ requests = <<>>
  /\ svc = NoResult
  /\ response = NoResult

AuthIdle ==
  /\ now = 0
  /\ held = {}
  /\ origin = {}
  /\ res = {}

AuthInit == AuthIdle /\ FeedIdle /\ LoginIdle /\ SentimentIdle

AuthNext ==
  \/ Tick
  \/ Issue
  \/ Tamper
  \/ Foreign
  \/ Validate

SpecAuth == AuthInit /\ [][AuthNext]_vars

FeedInit == AuthIdle /\ FeedIdle /\ LoginIdle /\ SentimentIdle

FeedNext ==
  \/ HandlerStart
  \/ ServiceStart
  \/ GetUserPostsCall
  \/ GetSinglePostCall
  \/ GetPostCommentsStep
  \/ HandlerFinish

SpecFeed == FeedInit /\ [][FeedNext]_vars

LoginInit == AuthIdle /\ FeedIdle /\ LoginIdle /\ SentimentIdle

LoginNext ==
  \/ Tick
  \/ CallbackStart
  \/ ExchangeCode
  \/ UpgradeToken
  \/ FetchProfileAndIssue

SpecLogin == LoginInit /\ [][LoginNext]_vars

SentimentInit == AuthIdle /\ FeedIdle /\ LoginIdle /\ SentimentIdle

SentimentNext ==
  \/ Startup
  \/ Shutdown
  \/ AnalyzeSentiment
  \/ RunBatchPredictionItem

SpecSentiment == SentimentInit /\ [][SentimentNext]_vars

====
